---- MODULE Spec2Model ----
(***************************************************************************)
(* Calorie tracker (src/app.py): the SQLite tables as sets of rows, the    *)
(* database functions as operators from a database value to a database     *)
(* value, and one action per script run of a logged-in session (Streamlit  *)
(* re-executes the script top to bottom for every widget interaction).     *)
(*                                                                         *)
(* Representation.  TEXT values are sequences of character codes (ASCII).  *)
(* REAL values are exact fixed-point integers: densities in tenths,        *)
(* nutrient amounts in thousandths (density/10 * weight_g/100).            *)
(* Binary floating-point rounding is not modelled.  Columns no query ever  *)
(* reads (foods.id, users.password_hash) and logs.time are left out.       *)
(***************************************************************************)
EXTENDS Integers, Sequences, FiniteSets, TLC

\* ------------------------------------------------------------------ bounds

\* log rows ever inserted (logs.id is AUTOINCREMENT and grows without bound)
MaxLogs == 2
\* days the clock advances past BaseDate
MaxClock == 2
\* largest history window asked of get_history
MaxDays == 3
\* script runs per interleaved session
MaxRuns == 2
\* progress bar inputs, in halves of a kcal: total_kcal and daily_goal
MaxTotalHalves == 8
MaxGoalHalves == 6

\* ------------------------------------------------------------------- text

\* "rice", "roti", ... as character codes
rice == <<114, 105, 99, 101>>
roti == <<114, 111, 116, 105>>
chicken == <<99, 104, 105, 99, 107, 101, 110>>
egg == <<101, 103, 103>>
milk == <<109, 105, 108, 107>>
apple == <<97, 112, 112, 108, 101>>
banana == <<98, 97, 110, 97, 110, 97>>
paneer == <<112, 97, 110, 101, 101, 114>>
dal == <<100, 97, 108>>
oats == <<111, 97, 116, 115>>
\* user input: "Rice ", "tofu" and a blank name "  "
RiceTyped == <<82, 105, 99, 101, 32>>
tofu == <<116, 111, 102, 117>>
Blank == <<32, 32>>

\* str.lower on ASCII: 'A'..'Z' map to 'a'..'z', everything else stays
lower_identity(s) == s
lower(s) == [i \in 1..Len(s) |-> IF s[i] >= 65 /\ s[i] <= 90 THEN s[i] + 32 ELSE s[i]]

IsSpace(c) == c \in {9, 10, 11, 12, 13, 32}

\* str.strip: drop leading and trailing whitespace
strip(s) ==
  LET keep == {i \in 1..Len(s) : ~IsSpace(s[i])}
  IN IF keep = {} THEN <<>>
     ELSE LET lo == CHOOSE i \in keep : \A j \in keep : i <= j
              hi == CHOOSE i \in keep : \A j \in keep : i >= j
          IN [i \in 1..(hi - lo + 1) |-> s[lo + i - 1]]

\* SQLite's BINARY collation on TEXT: byte-wise lexicographic order (memcmp,
\* then the shorter text first)
StrLess(a, b) ==
  LET n == IF Len(a) < Len(b) THEN Len(a) ELSE Len(b)
      diff == {i \in 1..n : a[i] # b[i]}
  IN IF diff = {} THEN Len(a) < Len(b)
     ELSE LET k == CHOOSE i \in diff : \A j \in diff : i <= j
          IN a[k] < b[k]

StrGeq(a, b) == ~StrLess(a, b)

\* ------------------------------------------------------------------ dates

\* datetime.date as <<year, month, day>>
IsLeap(y) == y % 4 = 0 /\ (y % 100 # 0 \/ y % 400 = 0)

DaysInMonth(y, m) ==
  IF m = 2 THEN (IF IsLeap(y) THEN 29 ELSE 28)
  ELSE IF m \in {4, 6, 9, 11} THEN 30 ELSE 31

RECURSIVE DaysBeforeMonth(_, _)
DaysBeforeMonth(y, m) == IF m = 1 THEN 0 ELSE DaysBeforeMonth(y, m - 1) + DaysInMonth(y, m - 1)

\* date.toordinal: proleptic Gregorian ordinal, 0001-01-01 is day 1
toordinal(dt) ==
  LET y == dt[1] - 1
  IN y * 365 + (y \div 4) - (y \div 100) + (y \div 400) + DaysBeforeMonth(dt[1], dt[2]) + dt[3]

\* the first day the clock shows
BaseDate == <<2025, 12, 31>>

\* the stretch of calendar the runs stay in
Calendar ==
  {<<2025, 12, d>> : d \in 1..DaysInMonth(2025, 12)} \cup {<<2026, 1, d>> : d \in 1..DaysInMonth(2026, 1)}

\* date.fromordinal, the inverse of toordinal
fromordinal(n) == CHOOSE dt \in Calendar : toordinal(dt) = n

\* date - timedelta(days=n)
MinusDays(dt, n) == fromordinal(toordinal(dt) - n)

\* zero-padded decimal digits of n, as characters
RECURSIVE Pad(_, _)
Pad(n, width) == IF width = 0 THEN <<>> ELSE Pad(n \div 10, width - 1) \o <<48 + (n % 10)>>

\* date.isoformat: "YYYY-MM-DD"
isoformat(dt) == Pad(dt[1], 4) \o <<45>> \o Pad(dt[2], 2) \o <<45>> \o Pad(dt[3], 2)

\* DatetimeIndex.strftime('%Y-%m-%d')
strftime(dt) == Pad(dt[1], 4) \o <<45>> \o Pad(dt[2], 2) \o <<45>> \o Pad(dt[3], 2)

\* pd.date_range(start, end): every day from start to end, ascending
date_range(start, end) ==
  [i \in 1..(toordinal(end) - toordinal(start) + 1) |-> fromordinal(toordinal(start) + i - 1)]

\* --------------------------------------------------------------- database

\* settings column defaults of the schema
DefaultDailyGoal == 2000
DefaultBreakfast == 25
DefaultLunch == 35
DefaultDinner == 30
DefaultSnack == 10

\* the tables after init_db on a fresh file
EmptyDB ==
  [users |-> {}, user_seq |-> 0, foods |-> {}, logs |-> {}, log_seq |-> 0, settings |-> {}]

UserIds(db) == {r.id : r \in db.users}

\* the row INSERT INTO settings (user_id) VALUES (?) writes
DefaultSettingsRow(user_id) ==
  [user_id |-> user_id, daily_goal |-> DefaultDailyGoal, breakfast_target |-> DefaultBreakfast,
   lunch_target |-> DefaultLunch, dinner_target |-> DefaultDinner, snack_target |-> DefaultSnack]

\* INSERT OR IGNORE INTO settings (user_id): user_id is the PRIMARY KEY
InsertOrIgnoreSettings(db, user_id) ==
  IF \E r \in db.settings : r.user_id = user_id THEN db
  ELSE [db EXCEPT !.settings = @ \cup {DefaultSettingsRow(user_id)}]

\* create_user cut short between its two commits: the users row is there,
\* the settings row is not
create_user_interrupted(db, username) ==
  IF \E r \in db.users : r.username = username
  THEN [db |-> db, ok |-> FALSE]
  ELSE [db |-> [db EXCEPT !.users = @ \cup {[id |-> db.user_seq + 1, username |-> username]},
                          !.user_seq = @ + 1],
        ok |-> FALSE]

\* create_user: False on a taken username (IntegrityError), else the users
\* row with the next AUTOINCREMENT id and a default settings row
create_user(db, username) ==
  IF \E r \in db.users : r.username = username
  THEN [db |-> db, ok |-> FALSE]
  ELSE [db |-> InsertOrIgnoreSettings(create_user_interrupted(db, username).db, db.user_seq + 1),
        ok |-> TRUE]

\* add_food with a plain INSERT: UNIQUE(user_id, name) raises IntegrityError
add_food_plain_insert(db, user_id, name, kcal, protein, carbs, fat) ==
  IF \E r \in db.foods : r.user_id = user_id /\ r.name = lower(name)
  THEN [db |-> db, err |-> "IntegrityError"]
  ELSE [db |-> [db EXCEPT !.foods = @ \cup
                  {[user_id |-> user_id, name |-> lower(name), kcal_per_100g |-> kcal,
                    protein_per_100g |-> protein, carbs_per_100g |-> carbs, fat_per_100g |-> fat]}],
        err |-> "ok"]

\* add_food: INSERT OR REPLACE under UNIQUE(user_id, name), the name lowered
add_food(db, user_id, name, kcal, protein, carbs, fat) ==
  LET row == [user_id |-> user_id, name |-> lower(name), kcal_per_100g |-> kcal,
              protein_per_100g |-> protein, carbs_per_100g |-> carbs, fat_per_100g |-> fat]
  IN [db |-> [db EXCEPT !.foods =
                 {r \in @ : ~(r.user_id = row.user_id /\ r.name = row.name)} \cup {row}],
      err |-> "ok"]

\* rows ordered by name ascending (names are unique within the set)
RECURSIVE OrderByName(_)
OrderByName(rows) ==
  IF rows = {} THEN <<>>
  ELSE LET first == CHOOSE r \in rows : \A o \in rows : o = r \/ StrLess(r.name, o.name) \/ o.name = r.name
       IN <<first>> \o OrderByName(rows \ {first})

\* SELECT name, kcal_per_100g, ... FROM foods WHERE user_id = ?
FoodRows(db, user_id) ==
  {[name |-> r.name, kcal_per_100g |-> r.kcal_per_100g,
    protein_per_100g |-> r.protein_per_100g, carbs_per_100g |-> r.carbs_per_100g,
    fat_per_100g |-> r.fat_per_100g] : r \in {f \in db.foods : f.user_id = user_id}}

\* get_foods: the account's definitions, ORDER BY name
get_foods(db, user_id) == OrderByName(FoodRows(db, user_id))

\* log_food: INSERT INTO logs with the next AUTOINCREMENT id, the food lowered
log_food(db, user_id, entry_date, food, weight_g, kcal, protein, carbs, fat, meal) ==
  [db EXCEPT !.logs = @ \cup
     {[id |-> db.log_seq + 1, user_id |-> user_id, entry_date |-> entry_date, food |-> lower(food),
       weight_g |-> weight_g, kcal |-> kcal, protein |-> protein, carbs |-> carbs, fat |-> fat,
       meal |-> meal]},
           !.log_seq = @ + 1]

\* rows ordered by id ascending
RECURSIVE OrderById(_)
OrderById(rows) ==
  IF rows = {} THEN <<>>
  ELSE LET first == CHOOSE r \in rows : \A o \in rows : r.id <= o.id
       IN <<first>> \o OrderById(rows \ {first})

\* get_logs_for_date: the account's entries of one date, ORDER BY id
get_logs_for_date(db, user_id, entry_date) ==
  OrderById({[id |-> r.id, food |-> r.food, weight_g |-> r.weight_g, kcal |-> r.kcal,
              protein |-> r.protein, carbs |-> r.carbs, fat |-> r.fat, meal |-> r.meal] :
             r \in {l \in db.logs : l.user_id = user_id /\ l.entry_date = entry_date}})

\* delete_log without the user_id condition
delete_log_any_owner(db, user_id, log_id) ==
  [db EXCEPT !.logs = {r \in @ : r.id # log_id}]

\* delete_log: DELETE FROM logs WHERE user_id = ? AND id = ?
delete_log(db, user_id, log_id) ==
  [db EXCEPT !.logs = {r \in @ : ~(r.user_id = user_id /\ r.id = log_id)}]

SettingsDict(r) ==
  [daily_goal |-> r.daily_goal, breakfast_target |-> r.breakfast_target,
   lunch_target |-> r.lunch_target, dinner_target |-> r.dinner_target,
   snack_target |-> r.snack_target]

\* get_settings: the account's row; when there is none, the default row is
\* inserted first and then read
get_settings(db, user_id) ==
  LET rows == {r \in db.settings : r.user_id = user_id}
      db2 == IF rows = {} THEN InsertOrIgnoreSettings(db, user_id) ELSE db
      row == CHOOSE r \in db2.settings : r.user_id = user_id
  IN [db |-> db2, settings |-> SettingsDict(row)]

\* update_settings with a plain INSERT that keeps the old row
update_settings_keep_old(db, user_id, daily_goal, breakfast_target, lunch_target, dinner_target, snack_target) ==
  [db EXCEPT !.settings = @ \cup
     {[user_id |-> user_id, daily_goal |-> daily_goal, breakfast_target |-> breakfast_target,
       lunch_target |-> lunch_target, dinner_target |-> dinner_target, snack_target |-> snack_target]}]

\* update_settings: REPLACE INTO settings, user_id the PRIMARY KEY
update_settings(db, user_id, daily_goal, breakfast_target, lunch_target, dinner_target, snack_target) ==
  [db EXCEPT !.settings = {r \in @ : r.user_id # user_id} \cup
     {[user_id |-> user_id, daily_goal |-> daily_goal, breakfast_target |-> breakfast_target,
       lunch_target |-> lunch_target, dinner_target |-> dinner_target, snack_target |-> snack_target]}]

\* calc_from_food_row: density * weight_g / 100 per channel (thousandths)
calc_from_food_row(row, weight_g) ==
  <<row.kcal_per_100g * weight_g, row.protein_per_100g * weight_g,
    row.carbs_per_100g * weight_g, row.fat_per_100g * weight_g>>

\* the example foods: name, kcal, protein, carbs, fat per 100 g (tenths)
sample ==
  << <<rice, 1300, 27, 280, 3>>, <<roti, 1200, 36, 200, 10>>, <<chicken, 1650, 310, 0, 36>>,
     <<egg, 1550, 130, 11, 110>>, <<milk, 600, 32, 50, 33>>, <<apple, 520, 3, 140, 2>>,
     <<banana, 890, 11, 230, 3>>, <<paneer, 2650, 180, 12, 208>>, <<dal, 1160, 90, 200, 10>>,
     <<oats, 3890, 170, 660, 70>> >>

\* the loop of seed_example_foods_for_user from item i on
RECURSIVE SeedFrom(_, _, _)
SeedFrom(db, user_id, i) ==
  IF i > Len(sample) THEN db
  ELSE SeedFrom(add_food(db, user_id, sample[i][1], sample[i][2], sample[i][3],
                         sample[i][4], sample[i][5]).db, user_id, i + 1)

\* seed_example_foods_for_user: add_food for each of the ten examples
seed_example_foods_for_user(db, user_id) == SeedFrom(db, user_id, 1)

\* ---------------------------------------------------------------- history

\* SUM(kcal), SUM(protein), SUM(carbs), SUM(fat) over a set of log rows
RECURSIVE SumRows(_)
SumRows(rows) ==
  IF rows = {} THEN <<0, 0, 0, 0>>
  ELSE LET r == CHOOSE x \in rows : TRUE
           rest == SumRows(rows \ {r})
       IN <<r.kcal + rest[1], r.protein + rest[2], r.carbs + rest[3], r.fat + rest[4]>>

HistoryRow(entry_date, sums) ==
  [entry_date |-> entry_date, kcal |-> sums[1], protein |-> sums[2], carbs |-> sums[3], fat |-> sums[4]]

\* get_history that returns the grouped query result as it is, without reindex
get_history_no_fill(db, today, user_id, days) ==
  LET start == MinusDays(today, days - 1)
      selected == {l \in db.logs : l.user_id = user_id /\ StrGeq(l.entry_date, isoformat(start))}
      idx == date_range(start, today)
      present == {i \in 1..Len(idx) : \E l \in selected : l.entry_date = strftime(idx[i])}
  IN IF selected = {}
     THEN [i \in 1..Len(idx) |-> HistoryRow(strftime(idx[i]), <<0, 0, 0, 0>>)]
     ELSE [k \in 1..Cardinality(present) |->
             LET i == CHOOSE j \in present : Cardinality({x \in present : x < j}) = k - 1
             IN HistoryRow(strftime(idx[i]), SumRows({l \in selected : l.entry_date = strftime(idx[i])}))]

\* get_history: per-date sums of the account's entries dated start or later,
\* laid over date_range(start, today) with zeros where the query has no row
get_history(db, today, user_id, days) ==
  LET start == MinusDays(today, days - 1)
      selected == {l \in db.logs : l.user_id = user_id /\ StrGeq(l.entry_date, isoformat(start))}
      grouped == {l.entry_date : l \in selected}
      idx == date_range(start, today)
  IN IF selected = {}
     THEN [i \in 1..Len(idx) |-> HistoryRow(strftime(idx[i]), <<0, 0, 0, 0>>)]
     ELSE [i \in 1..Len(idx) |->
             IF strftime(idx[i]) \in grouped
             THEN HistoryRow(strftime(idx[i]), SumRows({l \in selected : l.entry_date = strftime(idx[i])}))
             ELSE HistoryRow(strftime(idx[i]), <<0, 0, 0, 0>>)]

\* ------------------------------------------------------------- script runs

\* number_input('Weight (g)', min_value=1.0): the least weight the widget yields
WeightMin == 1

\* the page top seeding on every run, whatever the catalog holds
page_top_always_seed(db, user_id) ==
  get_settings(seed_example_foods_for_user(db, user_id), user_id).db

\* lines 333-340: seed when get_foods is empty, then get_settings
page_top(db, user_id) ==
  LET foods_df == FoodRows(db, user_id)
      db1 == IF foods_df = {} THEN seed_example_foods_for_user(db, user_id) ELSE db
  IN get_settings(db1, user_id).db

\* a run with no button pressed
idle_run(db, user_id) == page_top(db, user_id)

\* a run with 'Save settings' pressed
save_settings_run(db, user_id, daily_goal, b_target, l_target, d_target, s_target) ==
  update_settings(page_top(db, user_id), user_id, daily_goal, b_target, l_target, d_target, s_target)

\* 'Add entry' that logs whatever name it is given, with zeros when the
\* catalog has no such food
add_entry_run_no_lookup(db, today, user_id, food_choice, weight, meal) ==
  LET db1 == page_top(db, user_id)
      foods_df == FoodRows(db1, user_id)
      found == {r \in foods_df : r.name = food_choice}
      v == IF found = {} THEN <<0, 0, 0, 0>>
           ELSE calc_from_food_row(CHOOSE r \in found : TRUE, weight)
  IN [db |-> log_food(db1, user_id, isoformat(today), food_choice, weight, v[1], v[2], v[3], v[4], meal),
      err |-> "ok"]

\* a run with 'Add entry' pressed: the weight widget yields nothing below
\* WeightMin, the row lookup .iloc[0] raises IndexError when no definition
\* has the chosen name, otherwise calc_from_food_row and log_food
add_entry_run(db, today, user_id, food_choice, weight, meal) ==
  LET db1 == page_top(db, user_id)
      foods_df == FoodRows(db1, user_id)
      found == {r \in foods_df : r.name = food_choice}
  IN IF weight < WeightMin THEN [db |-> db1, err |-> "BelowMinValue"]
     ELSE IF found = {} THEN [db |-> db1, err |-> "IndexError"]
     ELSE LET v == calc_from_food_row(CHOOSE r \in found : TRUE, weight)
          IN [db |-> log_food(db1, user_id, isoformat(today), food_choice, weight,
                              v[1], v[2], v[3], v[4], meal),
              err |-> "ok"]

\* 'Add / Update food' that also rewrites the account's logged entries of
\* that food from the new densities
add_food_run_recompute(db, user_id, name, kcal, protein, carbs, fat) ==
  LET db1 == page_top(db, user_id)
      db2 == add_food(db1, user_id, lower(strip(name)), kcal, protein, carbs, fat).db
  IN IF strip(name) = <<>> THEN db1
     ELSE [db2 EXCEPT !.logs =
             {IF l.user_id = user_id /\ l.food = lower(strip(name))
              THEN [l EXCEPT !.kcal = kcal * l.weight_g, !.protein = protein * l.weight_g,
                             !.carbs = carbs * l.weight_g, !.fat = fat * l.weight_g]
              ELSE l : l \in db2.logs}]

\* a run with 'Add / Update food' pressed: a blank name is refused
add_food_run(db, user_id, name, kcal, protein, carbs, fat) ==
  LET db1 == page_top(db, user_id)
  IN IF strip(name) = <<>> THEN db1
     ELSE add_food(db1, user_id, lower(strip(name)), kcal, protein, carbs, fat).db

\* a run with 'Delete entry' pressed: the button exists only when today's
\* log is not empty, and an id of 0 is ignored
delete_entry_run(db, today, user_id, del_id) ==
  LET db1 == page_top(db, user_id)
      logs_df == get_logs_for_date(db1, user_id, isoformat(today))
  IN IF logs_df # <<>> /\ del_id > 0 THEN delete_log(db1, user_id, del_id) ELSE db1

\* ----------------------------------------------------------- progress bar

\* the bar computed as total_kcal / daily_goal, without the floor of 1
progress_bar_no_floor(total_kcal, daily_goal) ==
  IF daily_goal = 0 THEN [err |-> "ZeroDivisionError", num |-> 0, den |-> 1]
  ELSE IF total_kcal < 0 THEN [err |-> "ok", num |-> 0, den |-> 1]
  ELSE IF total_kcal > daily_goal THEN [err |-> "ok", num |-> 1, den |-> 1]
  ELSE [err |-> "ok", num |-> total_kcal, den |-> daily_goal]

\* line 424: min(max(total_kcal / max(daily_goal, 1), 0.0), 1.0), both
\* arguments in thousandths (1 is 1000), the result the fraction num/den
progress_bar(total_kcal, daily_goal) ==
  LET floor == IF daily_goal > 1000 THEN daily_goal ELSE 1000
      ratio == [num |-> total_kcal, den |-> floor]
      lower_clamped == IF ratio.num < 0 THEN [num |-> 0, den |-> 1] ELSE ratio
      clamped == IF lower_clamped.num > lower_clamped.den THEN [num |-> 1, den |-> 1]
                 ELSE lower_clamped
  IN IF floor = 0 THEN [err |-> "ZeroDivisionError", num |-> 0, den |-> 1]
     ELSE [err |-> "ok", num |-> clamped.num, den |-> clamped.den]

\* line 422: remaining = daily_goal - total_kcal
remaining_kcal(total_kcal, daily_goal) == daily_goal - total_kcal

\* ------------------------------------------------------------------ state

VARIABLES
  db,         \* the SQLite file: users, foods, logs, settings and the AUTOINCREMENT counters
  today,      \* date.today()
  created,    \* history: log id -> the values the entry was inserted with
  lastAdd,    \* history: the densities of the latest add_food call per (account, folded name)
  lastSet,    \* history: account -> the values of its latest update_settings call
  seedCount,  \* history: account -> how often seed_example_foods_for_user ran for it
  solo,       \* history: account -> the database had only that account's runs happened
  sess,       \* interleaved sessions: each session's position in its script run
  custom,     \* interleaved sessions: the densities of the latest 'Add / Update food' per name
  meter       \* progress bar: the inputs and what lines 422-424 compute from them

vars == <<db, today, created, lastAdd, lastSet, seedCount, solo, sess, custom, meter>>

\* ----------------------------------------------------------------- inputs

Usernames == {"ann", "bob"}
\* typed into 'Food name'
FoodNameInputs == {RiceTyped, Blank}
\* typed into the four density fields (tenths); the first is the form's default
DensityInputs == {<<1000, 0, 0, 0>>, <<3600, 70, 790, 6>>}
\* names asked of 'Add entry'; tofu is in no catalog
FoodChoiceInputs == {rice, tofu}
\* weights asked of 'Add entry' (grams)
WeightInputs == {0, 50}
Meals == {"Breakfast", "Lunch", "Dinner", "Snack"}
SettingsInputs == {<<1800, 30, 30, 30, 10>>, <<2500, 20, 40, 30, 10>>}
DelIdInputs == 0..(MaxLogs + 1)

\* ----------------------------------------------------------------- history

\* case folding of ASCII text
CaseFold(s) == [i \in 1..Len(s) |-> IF s[i] \in 65..90 THEN s[i] + 32 ELSE s[i]]

\* the add_food calls seed_example_foods_for_user makes, in order
SeedCalls(user_id) ==
  [i \in 1..Len(sample) |->
     [user_id |-> user_id, name |-> sample[i][1],
      dens |-> <<sample[i][2], sample[i][3], sample[i][4], sample[i][5]>>]]

\* the add_food calls of one script run on database d
AddCalls(d, user_id, handlerCalls) ==
  (IF FoodRows(d, user_id) = {} THEN SeedCalls(user_id) ELSE <<>>) \o handlerCalls

RECURSIVE RecordAdds(_, _)
RecordAdds(la, calls) ==
  IF calls = <<>> THEN la
  ELSE LET c == Head(calls)
           k == CaseFold(c.name)
       IN RecordAdds({x \in la : ~(x.user_id = c.user_id /\ x.key = k)}
                       \cup {[user_id |-> c.user_id, key |-> k, dens |-> c.dens]},
                     Tail(calls))

NextCreated(d2, known) ==
  [id \in {r.id : r \in d2.logs} |->
     IF id \in DOMAIN created THEN created[id]
     ELSE LET r == CHOOSE x \in d2.logs : x.id = id
          IN [kcal |-> r.kcal, protein |-> r.protein, carbs |-> r.carbs, fat |-> r.fat,
              known |-> known]]

Ghosts(user_id, d2, known, handlerCalls) ==
  /\ db' = d2
  /\ created' = NextCreated(d2, known)
  /\ lastAdd' = RecordAdds(lastAdd, AddCalls(db, user_id, handlerCalls))
  /\ seedCount' = [seedCount EXCEPT ![user_id] = @ + (IF FoodRows(db, user_id) = {} THEN 1 ELSE 0)]

\* ---------------------------------------------------------------- actions

Init ==
  /\ db = EmptyDB
  /\ today = BaseDate
  /\ created = <<>>
  /\ lastAdd = {}
  /\ lastSet = <<>>
  /\ seedCount = <<>>
  /\ solo = <<>>
  /\ sess = <<>>
  /\ custom = <<>>
  /\ meter = <<>>

\* sidebar 'Create account'
Register(username) ==
  /\ db' = create_user(db, username).db
  /\ seedCount' = [v \in UserIds(db') |-> IF v \in DOMAIN seedCount THEN seedCount[v] ELSE 0]
  /\ solo' = [v \in DOMAIN solo |-> create_user(solo[v], username).db]
  /\ UNCHANGED <<today, created, lastAdd, lastSet, sess, custom, meter>>

\* 'Create account' with the process stopped between create_user's commits
RegisterInterrupted(username) ==
  /\ db' = create_user_interrupted(db, username).db
  /\ seedCount' = [v \in UserIds(db') |-> IF v \in DOMAIN seedCount THEN seedCount[v] ELSE 0]
  /\ solo' = [v \in DOMAIN solo |-> create_user_interrupted(solo[v], username).db]
  /\ UNCHANGED <<today, created, lastAdd, lastSet, sess, custom, meter>>

\* a logged-in session's script run without a button
RunIdle(u) ==
  /\ u \in UserIds(db)
  /\ Ghosts(u, idle_run(db, u), FALSE, <<>>)
  /\ solo' = [v \in DOMAIN solo |-> IF v = u THEN idle_run(solo[v], u) ELSE solo[v]]
  /\ UNCHANGED <<today, lastSet, sess, custom, meter>>

RunSaveSettings(u, s) ==
  /\ u \in UserIds(db)
  /\ Ghosts(u, save_settings_run(db, u, s[1], s[2], s[3], s[4], s[5]), FALSE, <<>>)
  /\ lastSet' = [v \in DOMAIN lastSet \cup {u} |-> IF v = u THEN s ELSE lastSet[v]]
  /\ solo' = [v \in DOMAIN solo |->
                IF v = u THEN save_settings_run(solo[v], u, s[1], s[2], s[3], s[4], s[5]) ELSE solo[v]]
  /\ UNCHANGED <<today, sess, custom, meter>>

RunAddEntry(u, food_choice, weight, meal) ==
  /\ u \in UserIds(db)
  /\ db.log_seq < MaxLogs
  /\ Ghosts(u, add_entry_run(db, today, u, food_choice, weight, meal).db,
            \E r \in FoodRows(page_top(db, u), u) : r.name = CaseFold(food_choice),
            <<>>)
  /\ solo' = [v \in DOMAIN solo |->
                IF v = u THEN add_entry_run(solo[v], today, u, food_choice, weight, meal).db ELSE solo[v]]
  /\ UNCHANGED <<today, lastSet, sess, custom, meter>>

RunAddFood(u, name, d) ==
  /\ u \in UserIds(db)
  /\ Ghosts(u, add_food_run(db, u, name, d[1], d[2], d[3], d[4]), FALSE,
            IF strip(name) = <<>> THEN <<>>
            ELSE <<[user_id |-> u, name |-> lower(strip(name)), dens |-> d]>>)
  /\ solo' = [v \in DOMAIN solo |->
                IF v = u THEN add_food_run(solo[v], u, name, d[1], d[2], d[3], d[4]) ELSE solo[v]]
  /\ UNCHANGED <<today, lastSet, sess, custom, meter>>

RunDelete(u, del_id) ==
  /\ u \in UserIds(db)
  /\ Ghosts(u, delete_entry_run(db, today, u, del_id), FALSE, <<>>)
  /\ solo' = [v \in DOMAIN solo |->
                IF v = u THEN delete_entry_run(solo[v], today, u, del_id) ELSE solo[v]]
  /\ UNCHANGED <<today, lastSet, sess, custom, meter>>

\* midnight
Tick ==
  /\ toordinal(today) < toordinal(BaseDate) + MaxClock
  /\ today' = fromordinal(toordinal(today) + 1)
  /\ UNCHANGED <<db, created, lastAdd, lastSet, seedCount, solo, sess, custom, meter>>

\* catalog and log: every handler, the clock held at BaseDate
Next ==
  \/ \E n \in Usernames : Register(n)
  \/ \E u \in UserIds(db) : RunIdle(u)
  \/ \E u \in UserIds(db) : RunSaveSettings(u, <<1800, 30, 30, 30, 10>>)
  \/ \E u \in UserIds(db), f \in FoodChoiceInputs, w \in WeightInputs : RunAddEntry(u, f, w, "Lunch")
  \/ \E u \in UserIds(db), n \in FoodNameInputs, d \in DensityInputs : RunAddFood(u, n, d)
  \/ \E u \in UserIds(db), i \in DelIdInputs : RunDelete(u, i)

Spec == Init /\ [][Next]_vars

\* history: entries over several days
HistoryNext ==
  \/ \E n \in Usernames : Register(n)
  \/ \E u \in UserIds(db) : RunIdle(u)
  \/ \E u \in UserIds(db), w \in {50, 200} : RunAddEntry(u, rice, w, "Dinner")
  \/ \E u \in UserIds(db), i \in DelIdInputs : RunDelete(u, i)
  \/ Tick

HistorySpec == Init /\ [][HistoryNext]_vars

\* settings: registration with and without its second commit, every save
SettingsNext ==
  \/ \E n \in Usernames : Register(n)
  \/ \E n \in Usernames : RegisterInterrupted(n)
  \/ \E u \in UserIds(db) : RunIdle(u)
  \/ \E u \in UserIds(db), s \in SettingsInputs : RunSaveSettings(u, s)
  \/ \E u \in UserIds(db) : RunAddFood(u, RiceTyped, <<1000, 0, 0, 0>>)

SettingsSpec == Init /\ [][SettingsNext]_vars

\* ----------------------------------------------------------------- claims

Nutrients(r) == <<r.kcal, r.protein, r.carbs, r.fat>>
Densities(r) == <<r.kcal_per_100g, r.protein_per_100g, r.carbs_per_100g, r.fat_per_100g>>

\* C1: every log entry that exists holds exactly the kcal, protein, carbs and
\* fat it was inserted with, whatever add_food (also of the food it names),
\* seeding, settings calls and other entries' log_food and delete_log did since.
C1_SnapshotImmutable ==
  \A r \in db.logs :
     /\ r.id \in DOMAIN created
     /\ Nutrients(r) = <<created[r.id].kcal, created[r.id].protein, created[r.id].carbs, created[r.id].fat>>

\* an entry whose food was redefined after it was logged, beside another entry
C1_Witness ==
  \E r \in db.logs :
     /\ \E f \in db.foods : /\ f.user_id = r.user_id /\ f.name = r.food
                            /\ calc_from_food_row(f, r.weight_g) # Nutrients(r)
     /\ db.log_seq > 1

\* C2: the catalog holds at most one definition per (account, case-folded
\* name), it carries the densities of the latest add_food call for that key,
\* names differing only in case address the same definition, and add_food
\* over an existing definition raises no error.
C2_OneDefinitionLatestValues ==
  /\ \A r1 \in db.foods, r2 \in db.foods :
        r1.user_id = r2.user_id /\ CaseFold(r1.name) = CaseFold(r2.name) => r1 = r2
  /\ \A x \in lastAdd :
        \E r \in db.foods : r.user_id = x.user_id /\ CaseFold(r.name) = x.key /\ Densities(r) = x.dens
  /\ \A r \in db.foods :
        \E x \in lastAdd : r.user_id = x.user_id /\ CaseFold(r.name) = x.key
  /\ \A u \in UserIds(db), n \in {rice, <<82, 73, 67, 69>>, tofu}, d \in DensityInputs :
        LET res == add_food(db, u, n, d[1], d[2], d[3], d[4])
            hit == {r \in res.db.foods : r.user_id = u /\ CaseFold(r.name) = CaseFold(n)}
        IN /\ res.err = "ok"
           /\ Cardinality(hit) = 1
           /\ \A r \in hit : Densities(r) = d
           /\ {r \in res.db.foods : r \notin hit} =
                {r \in db.foods : ~(r.user_id = u /\ CaseFold(r.name) = CaseFold(n))}

\* "Rice " typed into the form replaced the seeded definition of rice, twice
C2_Witness ==
  \E x \in lastAdd, r \in db.foods, u \in UserIds(db) :
     /\ x.key = rice /\ x.dens = <<3600, 70, 790, 6>>
     /\ r.user_id = x.user_id /\ r.name = rice /\ Densities(r) = x.dens
     /\ u # x.user_id /\ \E o \in db.foods : o.user_id = u /\ o.name = rice /\ Densities(o) = <<1000, 0, 0, 0>>

\* C4: delete_log(account, id) removes the entry with that id only when it
\* exists and belongs to the account; otherwise it changes no log entry, food
\* definition or settings row, and a second call changes nothing more.  The
\* 'Delete entry' handler changes nothing either in those cases.
C4_DeleteScopedIdempotent ==
  \A u \in UserIds(db), id \in DelIdInputs :
     LET own == {r \in db.logs : r.id = id /\ r.user_id = u}
         once == delete_log(db, u, id)
     IN /\ once.logs = db.logs \ own
        /\ Cardinality(own) <= 1
        /\ once.foods = db.foods /\ once.settings = db.settings /\ once.users = db.users
        /\ own = {} => once = db
        /\ delete_log(once, u, id) = once
        /\ own = {} => delete_entry_run(db, today, u, id) = page_top(db, u)
        /\ delete_entry_run(db, today, u, id).logs \in {db.logs, db.logs \ own}

\* an entry was deleted, and an entry of one account is left while another
\* account that has an entry of its own could ask to delete it
C4_Witness ==
  /\ db.log_seq > Cardinality(db.logs)
  /\ \E r \in db.logs, u \in UserIds(db) : u # r.user_id

SortedExamples ==
  << <<apple, 520, 3, 140, 2>>, <<banana, 890, 11, 230, 3>>, <<chicken, 1650, 310, 0, 36>>,
     <<dal, 1160, 90, 200, 10>>, <<egg, 1550, 130, 11, 110>>, <<milk, 600, 32, 50, 33>>,
     <<oats, 3890, 170, 660, 70>>, <<paneer, 2650, 180, 12, 208>>, <<rice, 1300, 27, 280, 3>>,
     <<roti, 1200, 36, 200, 10>> >>

\* Seeding when script runs do not interleave: it runs exactly when the
\* account's catalog is empty at page load; it then populates exactly the ten
\* examples, which get_foods returns in ascending name order; no run empties a
\* catalog, so the account is seeded once and a loaded page never seeds again.
SeedIffEmptyOnce_Sequential ==
  \A u \in UserIds(db) :
     /\ seedCount[u] = (IF FoodRows(db, u) = {} THEN 0 ELSE 1)
     /\ FoodRows(db, u) = {} =>
          LET listed == get_foods(page_top(db, u), u)
          IN /\ Len(listed) = Len(SortedExamples)
             /\ \A i \in 1..Len(listed) :
                   /\ listed[i].name = SortedExamples[i][1]
                   /\ Densities(listed[i]) = <<SortedExamples[i][2], SortedExamples[i][3],
                                               SortedExamples[i][4], SortedExamples[i][5]>>
     /\ FoodRows(db, u) # {} =>
          /\ page_top(db, u).foods = db.foods
          /\ \A i \in 1..Len(SortedExamples) : \E r \in FoodRows(db, u) : r.name = SortedExamples[i][1]

\* an account seeded once whose rice was redefined and whose page loaded since
SeedIffEmptyOnce_Reached ==
  \E u \in UserIds(db) :
     /\ seedCount[u] = 1
     /\ \E r \in FoodRows(db, u) : r.name = rice /\ Densities(r) = <<1000, 0, 0, 0>>
     /\ \E l \in db.logs : l.user_id = u

\* C3: get_history(account, N) returns exactly N rows, one per calendar date
\* from today-(N-1) to today in ascending order; a date carries the per-channel
\* sums of the account's entries of that date, and zeros when it has none.
C3_HistoryDense ==
  \A u \in UserIds(db), N \in 1..MaxDays :
     LET h == get_history(db, today, u, N)
     IN /\ Len(h) = N
        /\ \A i \in 1..N :
              LET day == fromordinal(toordinal(today) - (N - i))
                  of_day == {l \in db.logs : l.user_id = u /\ l.entry_date = isoformat(day)}
              IN /\ h[i].entry_date = isoformat(day)
                 /\ <<h[i].kcal, h[i].protein, h[i].carbs, h[i].fat>> = SumRows(of_day)

\* an account with entries on two dates of the window and none on the date
\* between them, across the turn of the year
C3_Witness ==
  \E a \in db.logs, b \in db.logs :
     /\ a.user_id = b.user_id
     /\ a.entry_date = isoformat(BaseDate)
     /\ b.entry_date = isoformat(<<2026, 1, 2>>)
     /\ today = <<2026, 1, 2>>

\* C7: an account has at most one settings row; get_settings returns the five
\* values of its latest update_settings, or the defaults 2000/25/35/30/10 when
\* there was none; with no row it stores the default row before returning,
\* and it never changes a row that exists.
C7_SettingsLatestOrDefault ==
  \A u \in UserIds(db) :
     LET rows == {r \in db.settings : r.user_id = u}
         got == get_settings(db, u)
     IN /\ Cardinality(rows) <= 1
        /\ got.settings =
             (IF u \in DOMAIN lastSet
              THEN [daily_goal |-> lastSet[u][1], breakfast_target |-> lastSet[u][2],
                    lunch_target |-> lastSet[u][3], dinner_target |-> lastSet[u][4],
                    snack_target |-> lastSet[u][5]]
              ELSE [daily_goal |-> 2000, breakfast_target |-> 25, lunch_target |-> 35,
                    dinner_target |-> 30, snack_target |-> 10])
        /\ rows = {} => got.db.settings = db.settings \cup
                          {[user_id |-> u, daily_goal |-> 2000, breakfast_target |-> 25,
                            lunch_target |-> 35, dinner_target |-> 30, snack_target |-> 10]}
        /\ rows # {} => got.db = db
        /\ got.db.foods = db.foods /\ got.db.logs = db.logs

\* one account saved settings twice, another still has no settings row
C7_Witness ==
  \E u \in UserIds(db), v \in UserIds(db) :
     /\ u \in DOMAIN lastSet /\ lastSet[u] = <<2500, 20, 40, 30, 10>>
     /\ \E r \in db.settings : r.user_id = u /\ r.daily_goal = 2500
     /\ ~\E r \in db.settings : r.user_id = v

\* ------------------------------------------------- progress bar, on its own

ProgressInit ==
  /\ db = EmptyDB /\ today = BaseDate /\ created = <<>> /\ lastAdd = {} /\ lastSet = <<>>
  /\ seedCount = <<>> /\ solo = <<>> /\ sess = <<>> /\ custom = <<>>
  /\ meter \in {[total_kcal |-> 500 * t, daily_goal |-> 500 * g, shown |-> FALSE,
                 bar |-> [err |-> "ok", num |-> 0, den |-> 1], remaining |-> 0] :
                t \in 0..MaxTotalHalves, g \in 0..MaxGoalHalves}

\* lines 422-424 on the day's total and the stored goal
RenderProgress ==
  /\ ~meter.shown
  /\ meter' = [meter EXCEPT !.shown = TRUE,
                            !.bar = progress_bar(meter.total_kcal, meter.daily_goal),
                            !.remaining = remaining_kcal(meter.total_kcal, meter.daily_goal)]
  /\ UNCHANGED <<db, today, created, lastAdd, lastSet, seedCount, solo, sess, custom>>

ProgressNext == RenderProgress

ProgressSpec == ProgressInit /\ [][ProgressNext]_vars

\* C9: the progress fraction min(max(totalKcal / max(dailyGoal, 1), 0), 1) is
\* in [0,1] for every totalKcal >= 0 and dailyGoal >= 0, dailyGoal = 0 and
\* totals far above the goal included, without a division by zero; remaining
\* = dailyGoal - totalKcal is negative exactly when totalKcal > dailyGoal.
C9_ProgressClamped ==
  meter.shown =>
     LET goal1 == IF meter.daily_goal < 1000 THEN 1000 ELSE meter.daily_goal
     IN /\ meter.bar.err = "ok"
        /\ meter.bar.den > 0
        /\ 0 <= meter.bar.num /\ meter.bar.num <= meter.bar.den
        /\ meter.total_kcal <= goal1 => meter.bar.num * goal1 = meter.total_kcal * meter.bar.den
        /\ meter.total_kcal >= goal1 => meter.bar.num = meter.bar.den
        /\ (meter.remaining < 0) = (meter.total_kcal > meter.daily_goal)
        /\ meter.remaining + meter.total_kcal = meter.daily_goal

\* the bar shown for a goal of 0 and a total above it
C9_Witness ==
  meter.shown /\ meter.daily_goal = 0 /\ meter.total_kcal = 500 * MaxTotalHalves /\ meter.remaining < 0

\* ------------------------------------------- two sessions of one account

Sessions == {1, 2}
\* the account both sessions are logged in as
SessUser == 1

ConcInit ==
  /\ db = create_user(EmptyDB, "ann").db
  /\ today = BaseDate /\ created = <<>> /\ lastAdd = {} /\ lastSet = <<>>
  /\ seedCount = [u \in {SessUser} |-> 0] /\ solo = <<>> /\ meter = <<>>
  /\ sess = [s \in Sessions |-> [pc |-> "idle", i |-> 0, button |-> <<>>, runs |-> 0]]
  /\ custom = <<>>

ConcFrame == UNCHANGED <<today, created, lastAdd, lastSet, solo, meter>>

\* a widget interaction starts the session's script run: no button, or, once
\* the session has rendered the form, 'Add / Update food' with its fields
BeginRun(s, button) ==
  /\ sess[s].pc = "idle"
  /\ sess[s].runs < MaxRuns
  /\ button # <<>> => sess[s].runs > 0
  /\ sess' = [sess EXCEPT ![s] = [pc |-> "get_foods", i |-> 0, button |-> button, runs |-> @.runs + 1]]
  /\ UNCHANGED <<db, custom, seedCount>>
  /\ ConcFrame

\* lines 333-334: foods_df = get_foods(user_id); if foods_df.empty
CheckEmpty(s) ==
  /\ sess[s].pc = "get_foods"
  /\ sess' = [sess EXCEPT ![s].pc = IF get_foods(db, SessUser) = <<>> THEN "seed" ELSE "rest",
                          ![s].i = 1]
  /\ seedCount' = [seedCount EXCEPT ![SessUser] = @ + (IF get_foods(db, SessUser) = <<>> THEN 1 ELSE 0)]
  /\ UNCHANGED <<db, custom>>
  /\ ConcFrame

\* lines 250-251: one add_food call of the seeding loop
SeedOne(s) ==
  /\ sess[s].pc = "seed"
  /\ db' = add_food(db, SessUser, sample[sess[s].i][1], sample[sess[s].i][2], sample[sess[s].i][3],
                    sample[sess[s].i][4], sample[sess[s].i][5]).db
  /\ sess' = [sess EXCEPT ![s].i = @ + 1,
                          ![s].pc = IF sess[s].i = Len(sample) THEN "rest" ELSE "seed"]
  /\ UNCHANGED <<custom, seedCount>>
  /\ ConcFrame

\* lines 340-390: get_settings, then the form's add_food when it was submitted
RestOfRun(s) ==
  /\ sess[s].pc = "rest"
  /\ LET db1 == get_settings(db, SessUser).db
         b == sess[s].button
     IN IF b = <<>> \/ strip(b[1]) = <<>>
        THEN db' = db1 /\ UNCHANGED custom
        ELSE /\ db' = add_food(db1, SessUser, lower(strip(b[1])), b[2][1], b[2][2], b[2][3], b[2][4]).db
             /\ custom' = [n \in DOMAIN custom \cup {lower(strip(b[1]))} |->
                             IF n = lower(strip(b[1])) THEN b[2] ELSE custom[n]]
  /\ sess' = [sess EXCEPT ![s].pc = "idle"]
  /\ UNCHANGED seedCount
  /\ ConcFrame

ConcNext ==
  \/ \E s \in Sessions : BeginRun(s, <<>>)
  \/ \E s \in Sessions, d \in DensityInputs : BeginRun(s, <<RiceTyped, d>>)
  \/ \E s \in Sessions : CheckEmpty(s)
  \/ \E s \in Sessions : SeedOne(s)
  \/ \E s \in Sessions : RestOfRun(s)

ConcSpec == ConcInit /\ [][ConcNext]_vars

\* C10: seeding never overwrites a definition that is already in the catalog:
\* once both sessions have finished their runs, every food given custom
\* densities through 'Add / Update food' still has those densities stored.
C10_SeedKeepsCustom ==
  (\A s \in Sessions : sess[s].pc = "idle") =>
     \A n \in DOMAIN custom :
        \E r \in db.foods : r.user_id = SessUser /\ r.name = n /\ Densities(r) = custom[n]

\* C8: seeding runs if and only if the account's catalog is empty when the
\* page loads, populates exactly the ten examples, and happens exactly once
\* per account: seed_example_foods_for_user never runs a second time for it.
C8_SeededOncePerAccount ==
  \A u \in DOMAIN seedCount : seedCount[u] <= 1

\* --------------------------------------------------- runs of one account alone

IsoInit ==
  /\ db = EmptyDB /\ today = BaseDate /\ created = <<>> /\ lastAdd = {} /\ lastSet = <<>>
  /\ seedCount = <<>> /\ sess = <<>> /\ custom = <<>> /\ meter = <<>>
  /\ solo = [v \in 1..Cardinality(Usernames) |-> EmptyDB]

\* both accounts registered, each run applied to the shared database and to
\* the database of the account that issued it
IsoNext ==
  \/ \E n \in Usernames : Register(n)
  \/ \E u \in UserIds(db) : RunIdle(u)
  \/ \E u \in UserIds(db) : RunSaveSettings(u, <<1800, 30, 30, 30, 10>>)
  \/ \E u \in UserIds(db) : RunAddEntry(u, rice, 50, "Lunch")
  \/ \E u \in UserIds(db) : RunAddFood(u, RiceTyped, <<1000, 0, 0, 0>>)
  \/ \E u \in UserIds(db), i \in DelIdInputs : RunDelete(u, i)

IsoSpec == IsoInit /\ [][IsoNext]_vars

\* what an account's pages show: get_foods, get_logs_for_date, get_history, get_settings
Views(d, u) ==
  [foods |-> get_foods(d, u),
   logs |-> get_logs_for_date(d, u, isoformat(today)),
   history |-> [N \in 1..MaxDays |-> get_history(d, today, u, N)],
   settings |-> get_settings(d, u).settings]

\* the account's own rows of foods, logs and settings
OwnRows(d, u) ==
  [foods |-> {r \in d.foods : r.user_id = u},
   logs |-> {r \in d.logs : r.user_id = u},
   settings |-> {r \in d.settings : r.user_id = u}]

\* C6: data is isolated per account: what get_foods, get_logs_for_date,
\* get_history and get_settings return for an account depends only on the
\* operations issued for that account, so it is what they return when the
\* other account issued none.
C6_ViewsDependOnOwnRunsOnly ==
  \A u \in UserIds(db) : Views(db, u) = Views(solo[u], u)

\* the part of C6 about rows: no run issued for one account creates, changes
\* or removes a food definition, log entry or settings row of another account
C6_RowsOfOthersUntouched ==
  \A a \in UserIds(db), b \in UserIds(db) :
     a # b =>
        /\ OwnRows(idle_run(db, a), b) = OwnRows(db, b)
        /\ OwnRows(save_settings_run(db, a, 1800, 30, 30, 30, 10), b) = OwnRows(db, b)
        /\ OwnRows(add_entry_run(db, today, a, rice, 50, "Lunch").db, b) = OwnRows(db, b)
        /\ OwnRows(add_food_run(db, a, RiceTyped, 1000, 0, 0, 0), b) = OwnRows(db, b)
        /\ \A i \in DelIdInputs : OwnRows(delete_log(db, a, i), b) = OwnRows(db, b)
        /\ OwnRows(get_settings(db, a).db, b) = OwnRows(db, b)

====
